---- MODULE Spec2Model ----
(***************************************************************************)
(* The slide-deck player (the Presentation component) as a state machine.  *)
(* Two versions of the component are in the repository: the current one    *)
(* (src/app/page.tsx) and an earlier one (src/unnamed/part_007).  The      *)
(* variable `variant` says which of the two is mounted.                    *)
(*                                                                         *)
(* One step of the model is one browser task: a key press or a click with  *)
(* the render and the effects it causes, the settling of a play() promise, *)
(* an 'ended' event of the audio element, or the expiry of a setTimeout    *)
(* timer.  The catch callback of a rejected play() promise is a microtask: *)
(* it runs at the end of the task that rejected the promise, before any    *)
(* other task, and is part of that step.                                   *)
(*                                                                         *)
(* The second part of the module is a slide component: ReactMarkdown calls *)
(* the component's `code` function for every code node of the markdown,    *)
(* and the component's effect runs renderDiagrams over the elements it     *)
(* finds.  Its specification is SlideSpec; the player's is Spec.           *)
(***************************************************************************)
EXTENDS Integers, Sequences, FiniteSets, TLC

\* Number of slides (presentationData.slides.length); the data file is not
\* part of the sources, so the length is a bound of the model.
NumSlides == 3
\* Most timers that may be pending at once (the current version leaks them).
MaxTimers == 2
\* Number of code nodes in the markdown of a slide.
NumBlocks == 2
\* Most runs of renderDiagrams on one document.
MaxRuns == 2

Slides == 0 .. (NumSlides - 1)
LastSlide == NumSlides - 1

Variants == {"current", "earlier"}
Keys == {"ArrowRight", "ArrowLeft", " ", "n", "N", "s", "S", "Enter"}
Buttons == {"Previous", "PlayPause", "Next", "Notes", "Script"}

VARIABLES
    variant,           \* which version of the component is mounted
    hasAudio,          \* environment: hasAudio[k] iff slide k's mp3 is playable
    currentSlide,      \* useState(0)
    isPlaying,         \* useState(false)
    showSpeakerNotes,  \* useState(false)
    showNarration,     \* useState(false)
    audioSrc,          \* slide whose file is the audio element's src
    audioState,        \* the audio element: "paused", "pending" (play() called, promise
                       \* not settled), "playing", "failed" (no playable resource), "ended"
    timers,            \* timers[k]: pending setTimeout timers created for slide k
    last,              \* history: the last step taken and the state before it
    run,               \* history: the slides shown since a first togglePlay() that
                       \* no other user input preceded or followed
    component,         \* the slide component (the file it is in)
    markdown,          \* the code nodes of the component's markdown
    output,            \* output[i]: what code() returned for node i; <<>> before
                       \* the component has rendered
    dom,               \* dom[i]: the element of node i that carries its class
    diagramRuns        \* the runs of renderDiagrams, in the order they started

playerVars == <<variant, hasAudio, currentSlide, isPlaying, showSpeakerNotes,
                showNarration, audioSrc, audioState, timers, last, run>>
slideVars == <<component, markdown, output, dom, diagramRuns>>
vars == <<playerVars, slideVars>>

RECURSIVE SumOver(_, _)
SumOver(f, S) == IF S = {} THEN 0
                 ELSE LET x == CHOOSE y \in S : TRUE
                      IN f[x] + SumOver(f, S \ {x})
Total(f) == SumOver(f, DOMAIN f)

NoneOf == [k \in Slides |-> 0]

\* The audio element; rejected lists, in order, the slides whose play()
\* promises were rejected in the running step.
Audio == [src |-> audioSrc, state |-> audioState, rejected |-> <<>>]

\* HTMLMediaElement.paused and .ended of audio element a.
AudioPaused(a) == a.state \in {"paused", "ended"}
AudioEnded(a) == a.state = "ended"

\* audioRef.current.pause(): a pending play() promise is rejected (AbortError);
\* an element that has ended stays ended.
pause(a) ==
    IF a.state = "pending"
    THEN [a EXCEPT !.state = "paused", !.rejected = Append(@, a.src)]
    ELSE IF a.state \in {"playing", "failed"}
         THEN [a EXCEPT !.state = "paused"]
         ELSE a

\* audioRef.current.src = slide k's file; audioRef.current.load()
load(a, k) == [a EXCEPT !.src = k, !.state = "paused"]

\* audioRef.current.play(): the promise is either rejected at once (the
\* element is left as it is) or stays pending until the resource has loaded
\* or has failed to load.
play(a) == { [a EXCEPT !.state = "pending"],
             [a EXCEPT !.rejected = Append(@, a.src)] }


(***************************************************************************)
(* The effects.  A render is described by the React state it commits: the  *)
(* slide s and the play flag p.  An effect runs when one of its            *)
(* dependencies differs from the committed state before the render.        *)
(***************************************************************************)

\* LoadEffect without the assignment of the new src.
LoadEffectKeepSrc(a, s) == load(pause(a), a.src)

\* page.tsx, "Load audio when slide changes": pause, new src, load.
LoadEffect(a, s) == load(pause(a), s)

\* page.tsx, "Handle play/pause": play (for the catch callback see
\* playCatch) or pause.
PlayPauseEffect(a, p) == IF p THEN play(a) ELSE {pause(a)}

\* RenderCurrent with a play/pause effect that depends on isPlaying only.
RenderCurrentPlayOnToggle(a, s, p, tm) ==
    LET a1 == IF s # currentSlide THEN LoadEffect(a, s) ELSE a
        A2 == IF p # isPlaying
              THEN PlayPauseEffect(a1, p)
              ELSE {a1}
    IN { [slide |-> s, playing |-> p, audio |-> a2, timers |-> tm] : a2 \in A2 }

\* The render of the current version with state (s, p): the audio elements
\* it may leave.  The timers are not touched: no effect returns a cleanup
\* that clears them.
RenderCurrent(a, s, p, tm) ==
    LET a1 == IF s # currentSlide THEN LoadEffect(a, s) ELSE a
        A2 == IF s # currentSlide \/ p # isPlaying
              THEN PlayPauseEffect(a1, p)
              ELSE {a1}
    IN { [slide |-> s, playing |-> p, audio |-> a2, timers |-> tm] : a2 \in A2 }

\* part_007, "Play audio when slide changes": pause, new src, load, play.
LoadAndPlayEffect(a, s) == play(load(pause(a), s))

\* TimerEffect without the branch for the last slide.
TimerEffectNoReset(s, p) ==
    IF p /\ s < LastSlide
    THEN [playing |-> TRUE, timers |-> [k \in Slides |-> IF k = s THEN 1 ELSE 0]]
    ELSE [playing |-> p, timers |-> NoneOf]

\* part_007, the timer effect: its cleanup clears the timer of the previous
\* run; it arms a timer for slide s while playing before the last slide and
\* sets isPlaying to false at the last slide (a second render, in which the
\* effect does nothing).
TimerEffect(s, p) ==
    IF p /\ s < LastSlide
    THEN [playing |-> TRUE, timers |-> [k \in Slides |-> IF k = s THEN 1 ELSE 0]]
    ELSE IF p /\ s = LastSlide
         THEN [playing |-> FALSE, timers |-> NoneOf]
         ELSE [playing |-> p, timers |-> NoneOf]

\* The render of the earlier version with state (s, p).
RenderEarlier(a, s, p, tm) ==
    LET A1 == IF s # currentSlide THEN LoadAndPlayEffect(a, s) ELSE {a}
        te == IF s # currentSlide \/ p # isPlaying
              THEN TimerEffect(s, p)
              ELSE [playing |-> p, timers |-> tm]
    IN { [slide |-> s, playing |-> te.playing, audio |-> a1, timers |-> te.timers]
         : a1 \in A1 }

Render(a, s, p, tm) ==
    IF variant = "current" THEN RenderCurrent(a, s, p, tm)
    ELSE RenderEarlier(a, s, p, tm)

\* The catch callback of the current version's play() in the render of
\* slide k: the timers tm after it has run.
playCatch(tm, k) ==
    IF k < LastSlide THEN [tm EXCEPT ![k] = @ + 1] ELSE tm

\* The catch callback of the earlier version's play(): it only logs.
playCatchEarlier(tm, k) == tm

\* The catch callbacks of the promises rejected for the slides in rej run.
RECURSIVE RunCatches(_, _)
RunCatches(tm, rej) ==
    IF rej = <<>> THEN tm
    ELSE RunCatches(IF variant = "current" THEN playCatch(tm, Head(rej))
                    ELSE playCatchEarlier(tm, Head(rej)),
                    Tail(rej))

\* The audio element as created by <audio ref={audioRef} />.
NewAudio == [src |-> 0, state |-> "paused", rejected |-> <<>>]

\* The first render with a play effect that does not test isPlaying.
MountCurrentAutoplay == play(load(pause(NewAudio), 0))

\* The effects of the first render (currentSlide = 0, isPlaying = false).
MountCurrent == PlayPauseEffect(load(pause(NewAudio), 0), FALSE)
MountEarlier == play(load(pause(NewAudio), 0))

NoStep == [op |-> "mount", key |-> "", k |-> 0, slide |-> 0, playing |-> FALSE,
           notes |-> FALSE, script |-> FALSE, state |-> "paused",
           pendingTimers |-> 0]

\* No user input yet / a run that user input has disturbed.
Fresh == [phase |-> "fresh", shown |-> <<>>]
Off == [phase |-> "off", shown |-> <<>>]

Init ==
    /\ variant \in Variants
    /\ hasAudio \in [Slides -> BOOLEAN]
    /\ currentSlide = 0
    /\ isPlaying = FALSE
    /\ showSpeakerNotes = FALSE
    /\ showNarration = FALSE
    /\ \E a \in (IF variant = "current" THEN MountCurrent ELSE MountEarlier) :
          /\ audioSrc = a.src
          /\ audioState = a.state
          /\ timers = RunCatches(NoneOf, a.rejected)
    /\ last = NoStep
    /\ run = Fresh
    /\ component = "part_000"
    /\ markdown = <<>>
    /\ output = <<>>
    /\ dom = <<>>
    /\ diagramRuns = <<>>

\* The record of a step: what ran and the state it ran in.
StepRecord(op, key, k) ==
    [op |-> op, key |-> key, k |-> k, slide |-> currentSlide,
     playing |-> isPlaying, notes |-> showSpeakerNotes,
     script |-> showNarration, state |-> audioState,
     pendingTimers |-> Total(timers)]

\* The run after the step recorded in rec has committed slide s: a first
\* togglePlay() starts the undisturbed run, any other user input ends it,
\* and a step without user input that changes the slide extends it.
RunAfter(rec, s) ==
    IF rec.op \in {"keydown", "click"}
    THEN IF run.phase = "fresh" /\ rec.key \in {" ", "PlayPause"}
         THEN [phase |-> "auto", shown |-> <<currentSlide>>]
         ELSE Off
    ELSE IF s = currentSlide THEN run
    ELSE IF run.phase = "auto" THEN [run EXCEPT !.shown = Append(@, s)]
    ELSE Off

\* Commit one of the worlds W with the overlay flags n and sc, then run
\* the catch callbacks of the promises rejected on the way.
Commit(W, n, sc, rec) ==
    \E w \in W :
        /\ Total(RunCatches(w.timers, w.audio.rejected)) <= MaxTimers
        /\ currentSlide' = w.slide
        /\ isPlaying' = w.playing
        /\ showSpeakerNotes' = n
        /\ showNarration' = sc
        /\ audioSrc' = w.audio.src
        /\ audioState' = w.audio.state
        /\ timers' = RunCatches(w.timers, w.audio.rejected)
        /\ last' = rec
        /\ run' = RunAfter(rec, w.slide)
        /\ UNCHANGED <<variant, hasAudio>>
        /\ UNCHANGED slideVars

\* The React state a handler asks for.
State(s, p, n, sc) == [slide |-> s, playing |-> p, notes |-> n, script |-> sc]
Same == State(currentSlide, isPlaying, showSpeakerNotes, showNarration)

Max(a, b) == IF a > b THEN a ELSE b
Min(a, b) == IF a < b THEN a ELSE b

\* handleKeyDown with ArrowRight not tested against the last slide.
handleKeyDownUnbounded(key) ==
    IF key = "ArrowRight"
    THEN [Same EXCEPT !.slide = currentSlide + 1]
    ELSE IF key = "ArrowLeft" /\ currentSlide > 0
    THEN [Same EXCEPT !.slide = currentSlide - 1]
    ELSE IF key = " "
    THEN [Same EXCEPT !.playing = ~isPlaying]
    ELSE IF key \in {"n", "N"}
    THEN [Same EXCEPT !.notes = ~showSpeakerNotes]
    ELSE IF key \in {"s", "S"}
    THEN [Same EXCEPT !.script = ~showNarration]
    ELSE Same

\* handleKeyDown with ArrowLeft wrapping from slide 0 to the last slide.
handleKeyDownWrap(key) ==
    IF key = "ArrowRight" /\ currentSlide < LastSlide
    THEN [Same EXCEPT !.slide = currentSlide + 1]
    ELSE IF key = "ArrowLeft"
    THEN [Same EXCEPT !.slide = IF currentSlide > 0 THEN currentSlide - 1 ELSE LastSlide]
    ELSE IF key = " "
    THEN [Same EXCEPT !.playing = ~isPlaying]
    ELSE IF key \in {"n", "N"}
    THEN [Same EXCEPT !.notes = ~showSpeakerNotes]
    ELSE IF key \in {"s", "S"}
    THEN [Same EXCEPT !.script = ~showNarration]
    ELSE Same

\* handleKeyDown with the N branch calling the setter of the S branch.
handleKeyDownNotesPaste(key) ==
    IF key = "ArrowRight" /\ currentSlide < LastSlide
    THEN [Same EXCEPT !.slide = currentSlide + 1]
    ELSE IF key = "ArrowLeft" /\ currentSlide > 0
    THEN [Same EXCEPT !.slide = currentSlide - 1]
    ELSE IF key = " "
    THEN [Same EXCEPT !.playing = ~isPlaying]
    ELSE IF key \in {"n", "N"}
    THEN [Same EXCEPT !.script = ~showNarration]
    ELSE IF key \in {"s", "S"}
    THEN [Same EXCEPT !.script = ~showNarration]
    ELSE Same

\* handleKeyDown that tests the lower-case letters only.
handleKeyDownLowerOnly(key) ==
    IF key = "ArrowRight" /\ currentSlide < LastSlide
    THEN [Same EXCEPT !.slide = currentSlide + 1]
    ELSE IF key = "ArrowLeft" /\ currentSlide > 0
    THEN [Same EXCEPT !.slide = currentSlide - 1]
    ELSE IF key = " "
    THEN [Same EXCEPT !.playing = ~isPlaying]
    ELSE IF key = "n"
    THEN [Same EXCEPT !.notes = ~showSpeakerNotes]
    ELSE IF key = "s"
    THEN [Same EXCEPT !.script = ~showNarration]
    ELSE Same

\* handleKeyDown(e) with e.key = key.
handleKeyDown(key) ==
    IF key = "ArrowRight" /\ currentSlide < LastSlide
    THEN [Same EXCEPT !.slide = currentSlide + 1]
    ELSE IF key = "ArrowLeft" /\ currentSlide > 0
    THEN [Same EXCEPT !.slide = currentSlide - 1]
    ELSE IF key = " "
    THEN [Same EXCEPT !.playing = ~isPlaying]
    ELSE IF key \in {"n", "N"}
    THEN [Same EXCEPT !.notes = ~showSpeakerNotes]
    ELSE IF key \in {"s", "S"}
    THEN [Same EXCEPT !.script = ~showNarration]
    ELSE Same

\* onClick with Math.max in place of Math.min in the Next button.
onClickMaxForMin(button) ==
    IF button = "Previous"
    THEN IF currentSlide = 0 THEN Same
         ELSE [Same EXCEPT !.slide = Max(0, currentSlide - 1)]
    ELSE IF button = "Next"
    THEN IF currentSlide = LastSlide THEN Same
         ELSE [Same EXCEPT !.slide = Max(LastSlide, currentSlide + 1)]
    ELSE IF button = "PlayPause"
    THEN [Same EXCEPT !.playing = ~isPlaying]
    ELSE IF button = "Notes"
    THEN [Same EXCEPT !.notes = ~showSpeakerNotes]
    ELSE [Same EXCEPT !.script = ~showNarration]

\* onClick with a Play/Pause button that only starts: setIsPlaying(true).
onClickPlayOnly(button) ==
    IF button = "Previous"
    THEN IF currentSlide = 0 THEN Same
         ELSE [Same EXCEPT !.slide = Max(0, currentSlide - 1)]
    ELSE IF button = "Next"
    THEN IF currentSlide = LastSlide THEN Same
         ELSE [Same EXCEPT !.slide = Min(LastSlide, currentSlide + 1)]
    ELSE IF button = "PlayPause"
    THEN [Same EXCEPT !.playing = TRUE]
    ELSE IF button = "Notes"
    THEN [Same EXCEPT !.notes = ~showSpeakerNotes]
    ELSE [Same EXCEPT !.script = ~showNarration]

\* The onClick handlers of the navigation buttons; a disabled button gets
\* no click.
onClick(button) ==
    IF button = "Previous"
    THEN IF currentSlide = 0 THEN Same
         ELSE [Same EXCEPT !.slide = Max(0, currentSlide - 1)]
    ELSE IF button = "Next"
    THEN IF currentSlide = LastSlide THEN Same
         ELSE [Same EXCEPT !.slide = Min(LastSlide, currentSlide + 1)]
    ELSE IF button = "PlayPause"
    THEN [Same EXCEPT !.playing = ~isPlaying]
    ELSE IF button = "Notes"
    THEN [Same EXCEPT !.notes = ~showSpeakerNotes]
    ELSE [Same EXCEPT !.script = ~showNarration]

\* handleAudioEnd with the bound of its test off by one.
handleAudioEndStopsEarly ==
    IF isPlaying
    THEN IF currentSlide < LastSlide - 1
         THEN [Same EXCEPT !.slide = currentSlide + 1]
         ELSE [Same EXCEPT !.playing = FALSE]
    ELSE Same

\* The current version's handleAudioEnd.
handleAudioEnd ==
    IF isPlaying
    THEN IF currentSlide < LastSlide
         THEN [Same EXCEPT !.slide = currentSlide + 1]
         ELSE [Same EXCEPT !.playing = FALSE]
    ELSE Same

\* The earlier version's handleAudioEnd: no test of isPlaying.
handleAudioEndEarlier ==
    IF currentSlide < LastSlide
    THEN [Same EXCEPT !.slide = currentSlide + 1]
    ELSE [Same EXCEPT !.playing = FALSE]

\* timerCallback with a functional update of the live index:
\* setCurrentSlide(prev => Math.min(prev + 1, length - 1)).
timerCallbackIncrement(k) == [Same EXCEPT !.slide = Min(LastSlide, currentSlide + 1)]

\* The current version's timer callback, created for slide k.
timerCallback(k) == [Same EXCEPT !.slide = k + 1]

\* The earlier version's timer callback, created for slide k.
timerCallbackEarlier(k) ==
    IF AudioPaused(Audio) \/ AudioEnded(Audio)
    THEN [Same EXCEPT !.slide = k + 1]
    ELSE Same

(***************************************************************************)
(* The steps.                                                              *)
(***************************************************************************)

\* A key is pressed.
KeyDown ==
    \E key \in Keys :
        LET t == handleKeyDown(key)
        IN Commit(Render(Audio, t.slide, t.playing, timers), t.notes, t.script,
                  StepRecord("keydown", key, currentSlide))

\* A navigation button is clicked.
Click ==
    \E button \in Buttons :
        LET t == onClick(button)
        IN Commit(Render(Audio, t.slide, t.playing, timers), t.notes, t.script,
                  StepRecord("click", button, currentSlide))

\* The pending play() promise is fulfilled: the audio plays.
PlayStarts ==
    /\ audioState = "pending"
    /\ hasAudio[audioSrc]
    /\ audioState' = "playing"
    /\ last' = StepRecord("playStarts", "", audioSrc)
    /\ UNCHANGED <<variant, hasAudio, currentSlide, isPlaying, showSpeakerNotes,
                   showNarration, audioSrc, timers, run>>
    /\ UNCHANGED slideVars

\* PlayFails with a catch callback that also calls setIsPlaying(false).
PlayFailsStops ==
    /\ audioState = "pending"
    /\ ~hasAudio[audioSrc]
    /\ audioState' = "failed"
    /\ isPlaying' = FALSE
    /\ timers' = RunCatches(timers, <<audioSrc>>)
    /\ Total(timers') <= MaxTimers
    /\ last' = StepRecord("playFails", "", audioSrc)
    /\ UNCHANGED <<variant, hasAudio, currentSlide, showSpeakerNotes,
                   showNarration, audioSrc, run>>
    /\ UNCHANGED slideVars

\* The resource fails to load: the pending play() promise is rejected and
\* its catch callback runs.
PlayFails ==
    /\ audioState = "pending"
    /\ ~hasAudio[audioSrc]
    /\ audioState' = "failed"
    /\ timers' = RunCatches(timers, <<audioSrc>>)
    /\ Total(timers') <= MaxTimers
    /\ last' = StepRecord("playFails", "", audioSrc)
    /\ UNCHANGED <<variant, hasAudio, currentSlide, isPlaying, showSpeakerNotes,
                   showNarration, audioSrc, run>>
    /\ UNCHANGED slideVars

\* The audio reaches its end: the element has ended and the 'ended'
\* listener runs.
AudioEnds ==
    /\ audioState = "playing"
    /\ LET t == IF variant = "current" THEN handleAudioEnd ELSE handleAudioEndEarlier
           ended == [Audio EXCEPT !.state = "ended"]
       IN Commit(Render(ended, t.slide, t.playing, timers), t.notes, t.script,
                 StepRecord("ended", "", currentSlide))

\* A timer created for slide k expires and its callback runs.
TimerExpires ==
    \E k \in Slides :
        /\ timers[k] > 0
        /\ LET t == IF variant = "current" THEN timerCallback(k)
                    ELSE timerCallbackEarlier(k)
               tm == [timers EXCEPT ![k] = @ - 1]
           IN Commit(Render(Audio, t.slide, t.playing, tm), t.notes, t.script,
                     StepRecord("timer", "", k))

Next ==
    \/ KeyDown
    \/ Click
    \/ PlayStarts
    \/ PlayFails
    \/ AudioEnds
    \/ TimerExpires

Spec == Init /\ [][Next]_vars

\* A step without user input: a promise settles, the audio ends or a timer
\* expires.
AutoStep == PlayStarts \/ PlayFails \/ AudioEnds \/ TimerExpires


(***************************************************************************)
(* The slide components.  Strings the code matches with a regular          *)
(* expression are sequences of characters.                                 *)
(***************************************************************************)

\* The slide components modelled: the three forms of the code function and
\* the two forms of renderDiagrams occur among them.
Components == {"part_000", "part_001", "part_002", "part_003", "Slide_s4"}

LanguagePrefix == <<"l", "a", "n", "g", "u", "a", "g", "e", "-">>
Mermaid == <<"m", "e", "r", "m", "a", "i", "d">>
Python == <<"p", "y", "t", "h", "o", "n">>
Wasm == <<"w", "a", "s", "m">>
LanguageMermaid == LanguagePrefix \o Mermaid

\* The languages of the fenced blocks; <<>> is a fence without a language.
Langs == {<<>>, Mermaid, Python, Wasm}

\* The contents of a code node: a diagram mermaid can parse, or not.
Texts == {"graph", "garbage"}

\* A code node of the markdown: inline code has no language.
Nodes ==
    [inline : {TRUE}, lang : {<<>>}, text : Texts]
        \cup [inline : {FALSE}, lang : Langs, text : Texts]

\* The className ReactMarkdown passes to code() for a node: language-<lang>
\* for a fence with a language, none otherwise.
classNameOf(node) ==
    IF node.lang = <<>> THEN <<>> ELSE LanguagePrefix \o node.lang

\* The characters \w matches.
WordChars ==
    {"a", "b", "c", "d", "e", "f", "g", "h", "i", "j", "k", "l", "m", "n", "o",
     "p", "q", "r", "s", "t", "u", "v", "w", "x", "y", "z",
     "A", "B", "C", "D", "E", "F", "G", "H", "I", "J", "K", "L", "M", "N", "O",
     "P", "Q", "R", "S", "T", "U", "V", "W", "X", "Y", "Z",
     "0", "1", "2", "3", "4", "5", "6", "7", "8", "9", "_"}

\* The characters of the group of the component's regular expression:
\* /language-(\w+)/ in part_000, part_001 and part_002, /language-(w+)/ (the
\* letter w) in part_003 and Slide_s4.
GroupChars(c) == IF c \in {"part_003", "Slide_s4"} THEN {"w"} ELSE WordChars

\* The longest run of characters of C in str from position i on.
RECURSIVE RunOf(_, _, _)
RunOf(str, i, C) ==
    IF i <= Len(str) /\ str[i] \in C
    THEN <<str[i]>> \o RunOf(str, i + 1, C)
    ELSE <<>>

\* const match = /language-(C+)/.exec(className || '');
\* const language = match ? match[1] : '';
languageOf(className, C) ==
    LET starts == { i \in 1 .. Len(className) :
                      /\ i + Len(LanguagePrefix) <= Len(className)
                      /\ SubSeq(className, i, i + Len(LanguagePrefix) - 1)
                            = LanguagePrefix
                      /\ className[i + Len(LanguagePrefix)] \in C }
    IN IF starts = {} THEN <<>>
       ELSE LET first == CHOOSE i \in starts : \A j \in starts : i <= j
            IN RunOf(className, first + Len(LanguagePrefix), C)

\* The elements code() returns: the root element and its className, the
\* className of the <code> element in it, and the language handed to the
\* highlighter.
Element(root, rootClass, codeClass, language) ==
    [root |-> root, rootClass |-> rootClass, codeClass |-> codeClass,
     language |-> language]

\* <code className={className}>
CodeElement(className) == Element("code", className, <<>>, <<>>)
\* <Mermaid chart=... />
MermaidElement == Element("Mermaid", <<>>, <<>>, <<>>)
\* <pre className="language-mermaid"><code>
PreMermaidElement == Element("pre", LanguageMermaid, <<>>, <<>>)
\* <SyntaxHighlighter language={language}>
HighlighterElement(language) == Element("SyntaxHighlighter", <<>>, <<>>, language)
\* <pre><code className={className}>
PreCodeElement(className) == Element("pre", <<>>, className, <<>>)

\* The code function of component c, called with the props inline and
\* className.
code(c, inline, className) ==
    LET language == languageOf(className, GroupChars(c))
    IN IF c = "Slide_s4"
       THEN LET isInline == className = <<>>
            IN IF ~isInline /\ language = Mermaid
               THEN PreMermaidElement
               ELSE CodeElement(className)
       ELSE IF inline THEN CodeElement(className)
       ELSE IF language = Mermaid
            THEN IF c = "part_000" THEN MermaidElement ELSE PreMermaidElement
       ELSE IF language # <<>> THEN HighlighterElement(language)
       ELSE PreCodeElement(className)

\* The components that import the syntax highlighter.
HasHighlighter(c) == c # "Slide_s4"

\* The components with a renderDiagrams effect (part_000 hands the chart
\* to the Mermaid component), and those whose renderDiagrams marks the
\* elements it has taken.
HasRenderDiagrams(c) == c # "part_000"
MarksProcessed(c) == c = "part_001"

\* The element of node that carries a class, as document.querySelectorAll
\* sees it, after code() has returned el: its class, the marks renderDiagrams
\* puts on it, its text content, the 'mermaid-rendered' containers inserted
\* for it, whether it is still in its parent, and how often mermaid has
\* rendered it.
DomElement(node, el) ==
    [cls |-> IF el.rootClass # <<>> THEN el.rootClass ELSE el.codeClass,
     marks |-> {},
     text |-> node.text,
     containers |-> 0,
     inParent |-> TRUE,
     renders |-> 0]

\* document.querySelectorAll('.language-mermaid') on the elements d, in
\* document order.
querySelectorAll(d) ==
    SelectSeq([i \in 1 .. Len(d) |-> i],
              LAMBDA i : d[i].inParent /\ d[i].cls = LanguageMermaid)

\* The first position from i on of an element of snapshot that has no
\* 'mermaid-processed' mark (Len(snapshot) + 1 if there is none).
RECURSIVE NextUnprocessed(_, _, _)
NextUnprocessed(d, snapshot, i) ==
    IF i > Len(snapshot) THEN i
    ELSE IF "mermaid-processed" \in d[snapshot[i]].marks
         THEN NextUnprocessed(d, snapshot, i + 1)
         ELSE i

\* renderDiagrams from position i of its snapshot up to its next await: the
\* loop skips the marked elements (part_001 only), reads the text of the
\* element, marks it (part_001 only) and calls mermaid.render.
renderDiagrams(d, snapshot, i) ==
    LET j == IF MarksProcessed(component) THEN NextUnprocessed(d, snapshot, i)
             ELSE i
    IN IF j > Len(snapshot)
       THEN [dom |-> d,
             run |-> [snapshot |-> snapshot, i |-> j, graph |-> "",
                      state |-> "done"]]
       ELSE [dom |-> IF MarksProcessed(component)
                     THEN [d EXCEPT ![snapshot[j]].marks = @ \cup {"mermaid-processed"}]
                     ELSE d,
             run |-> [snapshot |-> snapshot, i |-> j,
                      graph |-> d[snapshot[j]].text, state |-> "awaiting"]]

\* The statements after a fulfilled `await mermaid.render` for element e.
AfterRender(d, e) ==
    IF MarksProcessed(component)
    THEN IF d[e].inParent
         THEN [d EXCEPT ![e].containers = @ + 1, ![e].inParent = FALSE,
                        ![e].renders = @ + 1]
         ELSE [d EXCEPT ![e].renders = @ + 1]
    ELSE [d EXCEPT ![e].text = "svg", ![e].cls = <<>>,
                   ![e].marks = @ \cup {"mermaid-rendered"},
                   ![e].renders = @ + 1]

\* The catch block for element e.
CatchRender(d, e) ==
    IF MarksProcessed(component)
    THEN [d EXCEPT ![e].marks = @ \ {"mermaid-processed"}, ![e].text = "error"]
    ELSE d

\* Before the component has rendered.
SlideInit ==
    /\ component \in Components
    /\ markdown \in [1 .. NumBlocks -> Nodes]
    /\ output = <<>>
    /\ dom = <<>>
    /\ diagramRuns = <<>>
    /\ variant = "current"
    /\ hasAudio = [k \in Slides |-> FALSE]
    /\ currentSlide = 0
    /\ isPlaying = FALSE
    /\ showSpeakerNotes = FALSE
    /\ showNarration = FALSE
    /\ audioSrc = 0
    /\ audioState = "paused"
    /\ timers = NoneOf
    /\ last = NoStep
    /\ run = Fresh

\* The component renders: ReactMarkdown calls code() for every code node,
\* and the effect starts the first run of renderDiagrams.
Mount ==
    /\ output = <<>>
    /\ LET out == [i \in 1 .. NumBlocks |->
                      code(component, markdown[i].inline, classNameOf(markdown[i]))]
           d == [i \in 1 .. NumBlocks |-> DomElement(markdown[i], out[i])]
           first == renderDiagrams(d, querySelectorAll(d), 1)
       IN /\ output' = out
          /\ IF HasRenderDiagrams(component)
             THEN dom' = first.dom /\ diagramRuns' = <<first.run>>
             ELSE dom' = d /\ diagramRuns' = <<>>
    /\ UNCHANGED <<component, markdown>>
    /\ UNCHANGED playerVars

\* The effect runs again on the same document (React runs the effects of a
\* mounted component twice in strict mode): another run of renderDiagrams.
EffectRuns ==
    /\ output # <<>>
    /\ HasRenderDiagrams(component)
    /\ Len(diagramRuns) < MaxRuns
    /\ LET new == renderDiagrams(dom, querySelectorAll(dom), 1)
       IN /\ dom' = new.dom
          /\ diagramRuns' = Append(diagramRuns, new.run)
    /\ UNCHANGED <<component, markdown, output>>
    /\ UNCHANGED playerVars

\* mermaid.render of a run fulfils: the run puts the diagram into the
\* document and goes on to its next await.
RenderResolves ==
    \E r \in 1 .. Len(diagramRuns) :
        /\ diagramRuns[r].state = "awaiting"
        /\ diagramRuns[r].graph = "graph"
        /\ LET this == diagramRuns[r]
               d == AfterRender(dom, this.snapshot[this.i])
               on == renderDiagrams(d, this.snapshot, this.i + 1)
           IN /\ dom' = on.dom
              /\ diagramRuns' = [diagramRuns EXCEPT ![r] = on.run]
        /\ UNCHANGED <<component, markdown, output>>
        /\ UNCHANGED playerVars

\* mermaid.render of a run rejects (the text is no diagram): the catch
\* block runs and the run goes on to its next await.
RenderRejects ==
    \E r \in 1 .. Len(diagramRuns) :
        /\ diagramRuns[r].state = "awaiting"
        /\ diagramRuns[r].graph # "graph"
        /\ LET this == diagramRuns[r]
               d == CatchRender(dom, this.snapshot[this.i])
               on == renderDiagrams(d, this.snapshot, this.i + 1)
           IN /\ dom' = on.dom
              /\ diagramRuns' = [diagramRuns EXCEPT ![r] = on.run]
        /\ UNCHANGED <<component, markdown, output>>
        /\ UNCHANGED playerVars

SlideNext ==
    \/ Mount
    \/ EffectRuns
    \/ RenderResolves
    \/ RenderRejects

SlideSpec == SlideInit /\ [][SlideNext]_vars


(***************************************************************************)
(* The steps by their kind, read from the history variable.                *)
(***************************************************************************)

\* The last step was next(): the ArrowRight key or the Next button.
WasNext ==
    \/ last.op = "keydown" /\ last.key = "ArrowRight"
    \/ last.op = "click" /\ last.key = "Next"

\* The last step was previous(): the ArrowLeft key or the Previous button.
WasPrevious ==
    \/ last.op = "keydown" /\ last.key = "ArrowLeft"
    \/ last.op = "click" /\ last.key = "Previous"

\* The last step was togglePlay(): the Space key or the Play/Pause button.
WasTogglePlay ==
    \/ last.op = "keydown" /\ last.key = " "
    \/ last.op = "click" /\ last.key = "PlayPause"

\* The last step was an advancement event: an 'ended' event or a timer expiry.
WasAdvancement == last.op \in {"ended", "timer"}

\* The last step was toggleNotes(): the n or N key or the Notes button.
WasToggleNotes ==
    \/ last.op = "keydown" /\ last.key \in {"n", "N"}
    \/ last.op = "click" /\ last.key = "Notes"

\* The last step was toggleScript(): the s or S key or the Script button.
WasToggleScript ==
    \/ last.op = "keydown" /\ last.key \in {"s", "S"}
    \/ last.op = "click" /\ last.key = "Script"

\* The last step took no user input.
WasAutoStep == last.op \in {"playStarts", "playFails", "ended", "timer"}

\* The audio element and the timers are as before the last step.
AudioAndTimersUntouched ==
    /\ audioSrc = last.slide
    /\ audioState = last.state
    /\ Total(timers) = last.pendingTimers

\* The four fields of the playback state are as before the last step.
PlaybackStateUnchanged ==
    /\ currentSlide = last.slide
    /\ isPlaying = last.playing
    /\ showSpeakerNotes = last.notes
    /\ showNarration = last.script

(***************************************************************************)
(* C1.  In every reachable state, after any sequence of key presses,       *)
(* clicks, 'ended' events, play rejections and timer expiries,             *)
(* 0 <= currentSlide < NumSlides.                                          *)
(***************************************************************************)
C1_IndexInRange == 0 <= currentSlide /\ currentSlide < NumSlides

\* A timer of the current version has moved the player onto the last slide.
C1_Witness ==
    /\ variant = "current"
    /\ last.op = "timer"
    /\ last.slide < LastSlide
    /\ currentSlide = LastSlide

(***************************************************************************)
(* C2.  While playing, each slide that completes (its audio ends or its    *)
(* fallback timer expires) advances the index by exactly 1: never 0,       *)
(* never 2.  Stated for the current version, before the last slide.        *)
(***************************************************************************)
C2_ExactlyOneAdvancement ==
    (/\ variant = "current"
     /\ WasAdvancement
     /\ last.playing
     /\ last.slide < LastSlide)
    => currentSlide = last.slide + 1

(***************************************************************************)
(* C3.  Switching slides cancels the pending duration timer: a timer       *)
(* created for slide k is pending only while the player is on slide k, and *)
(* a timer never fires after the player has left its slide.                *)
(***************************************************************************)
C3_NoStaleTimer ==
    /\ \A k \in Slides : timers[k] > 0 => k = currentSlide
    /\ last.op = "timer" => last.k = last.slide

(***************************************************************************)
(* C4.  A timer is cancelled by every transition that supersedes it,       *)
(* togglePlay from Playing to Idle included: while isPlaying is false no   *)
(* timer expiry changes currentSlide.                                      *)
(***************************************************************************)
C4_NoTimerAdvanceWhileIdle ==
    (last.op = "timer" /\ ~last.playing) => currentSlide = last.slide

(***************************************************************************)
(* C5.  The audio-ended handler and the duration timer are mutually        *)
(* exclusive for a slide: no state has both audio of slide k playing and a *)
(* timer for slide k pending.  Stated for the current version.             *)
(***************************************************************************)
C5_AudioXorTimer ==
    variant = "current" => ~(audioState = "playing" /\ timers[audioSrc] > 0)

(***************************************************************************)
(* C6.  Every change of currentSlide by an advancement event ('ended' or   *)
(* timer expiry) goes from the slide shown, k, to k + 1: never backwards,  *)
(* never skipping a slide.  Stated for the current version.                *)
(***************************************************************************)
C6_AdvanceToNext ==
    (variant = "current" /\ WasAdvancement /\ currentSlide # last.slide)
    => currentSlide = last.slide + 1

(***************************************************************************)
(* C7.  next() at the last slide and previous() at slide 0 are no-ops, by  *)
(* key and by button: currentSlide, isPlaying, showSpeakerNotes and        *)
(* showNarration are unchanged.                                            *)
(***************************************************************************)
C7_NoOpAtBounds ==
    ((WasNext /\ last.slide = LastSlide) \/ (WasPrevious /\ last.slide = 0))
    => PlaybackStateUnchanged

\* ArrowLeft was pressed at slide 0 while playing.
C7_Witness ==
    /\ last.op = "keydown"
    /\ last.key = "ArrowLeft"
    /\ last.slide = 0
    /\ last.playing
    /\ currentSlide = 0

(***************************************************************************)
(* C8.  Away from the bounds next() sets currentSlide to exactly           *)
(* currentSlide + 1 and previous() to exactly currentSlide - 1, by key and *)
(* by button, from every index; at the bounds the index stays (the clamp). *)
(***************************************************************************)
C8_NextPreviousByOne ==
    /\ WasNext => currentSlide = Min(LastSlide, last.slide + 1)
    /\ WasPrevious => currentSlide = Max(0, last.slide - 1)

\* The Next button was clicked at a slide that is neither first nor last.
C8_Witness ==
    /\ last.op = "click"
    /\ last.key = "Next"
    /\ 0 < last.slide
    /\ last.slide < LastSlide
    /\ currentSlide = last.slide + 1

(***************************************************************************)
(* C9.  togglePlay() of the current version flips isPlaying and changes    *)
(* nothing else of the playback state, from every state, the last slide    *)
(* included; hence two consecutive calls restore isPlaying.                *)
(***************************************************************************)
C9_TogglePlayFlips ==
    (variant = "current" /\ WasTogglePlay)
    => /\ isPlaying = ~last.playing
       /\ currentSlide = last.slide
       /\ showSpeakerNotes = last.notes
       /\ showNarration = last.script

\* Play/Pause was clicked on the last slide while playing.
C9_Witness ==
    /\ variant = "current"
    /\ last.op = "click"
    /\ last.key = "PlayPause"
    /\ last.slide = LastSlide
    /\ last.playing
    /\ ~isPlaying

(***************************************************************************)
(* C10.  next() and previous() do not change the play state, and they      *)
(* reset the timer and the audio of the slide that was left: after a       *)
(* navigation that changed the slide, isPlaying is as before, no timer of  *)
(* the slide left is pending and the audio element holds the new slide's   *)
(* file.  Stated for the current version.                                  *)
(***************************************************************************)
C10_NavigationKeepsPlayState ==
    (variant = "current" /\ (WasNext \/ WasPrevious) /\ currentSlide # last.slide)
    => /\ isPlaying = last.playing
       /\ timers[last.slide] = 0
       /\ audioSrc = currentSlide
       /\ audioState # "playing"


(***************************************************************************)
(* C11.  toggleNotes() and toggleScript() each flip only their own flag:   *)
(* currentSlide, isPlaying and the other flag are unchanged, and the audio *)
(* element and the timers are left as they were.                           *)
(***************************************************************************)
C11_OverlayTogglesOnlyFlip ==
    /\ WasToggleNotes =>
          /\ showSpeakerNotes = ~last.notes
          /\ showNarration = last.script
          /\ currentSlide = last.slide
          /\ isPlaying = last.playing
          /\ AudioAndTimersUntouched
    /\ WasToggleScript =>
          /\ showNarration = ~last.script
          /\ showSpeakerNotes = last.notes
          /\ currentSlide = last.slide
          /\ isPlaying = last.playing
          /\ AudioAndTimersUntouched

\* N was pressed while audio was playing and a timer was pending.
C11_Witness ==
    /\ last.op = "keydown"
    /\ last.key = "N"
    /\ last.state = "playing"
    /\ last.pendingTimers > 0
    /\ showSpeakerNotes

(***************************************************************************)
(* C12.  On an 'ended' event: while playing before the last slide,         *)
(* currentSlide becomes currentSlide + 1 and isPlaying stays true; while   *)
(* playing at the last slide, isPlaying becomes false and currentSlide is  *)
(* unchanged; while not playing, nothing changes.                          *)
(***************************************************************************)
C12_OnAudioEnded ==
    last.op = "ended" =>
        /\ showSpeakerNotes = last.notes
        /\ showNarration = last.script
        /\ IF last.playing
           THEN IF last.slide < LastSlide
                THEN currentSlide = last.slide + 1 /\ isPlaying
                ELSE currentSlide = last.slide /\ ~isPlaying
           ELSE currentSlide = last.slide /\ ~isPlaying

(***************************************************************************)
(* C13.  Reaching the last slide while playing leads to Idle without user  *)
(* input.  Stated as what a run without user input needs for it: in a      *)
(* state of the current version with isPlaying at the last slide, some     *)
(* step without user input is still possible.                              *)
(***************************************************************************)
C13_LastSlideNotStuckPlaying ==
    (variant = "current" /\ isPlaying /\ currentSlide = LastSlide)
    => ENABLED AutoStep

(***************************************************************************)
(* C14.  With no audio file for any slide and no user input after          *)
(* togglePlay() at slide 0, the player shows slides 0, 1, ..., N-1 in that *)
(* order, each once, and ends with currentSlide = N-1 and isPlaying =      *)
(* false: during the run the slides shown are 0 .. currentSlide, and when  *)
(* no step without user input is left the run has shown all slides and     *)
(* the player is Idle on the last one.  Stated for the current version.    *)
(***************************************************************************)
C14_NoAudioRun ==
    (/\ variant = "current"
     /\ run.phase = "auto"
     /\ \A k \in Slides : ~hasAudio[k])
    => /\ run.shown = [i \in 1 .. (currentSlide + 1) |-> i - 1]
       /\ ~ENABLED AutoStep =>
             /\ currentSlide = LastSlide
             /\ ~isPlaying

(***************************************************************************)
(* C15.  After the start of audio has failed at a slide k before the last  *)
(* while playing, currentSlide stays k until the timer armed for slide k   *)
(* expires: the step without user input that moves the player off slide k  *)
(* is the expiry of a timer of slide k.  Stated for the current version.   *)
(***************************************************************************)
C15_FallbackTimerGoverns ==
    (/\ variant = "current"
     /\ WasAutoStep
     /\ last.state = "failed"
     /\ last.playing
     /\ last.slide < LastSlide
     /\ currentSlide # last.slide)
    => (last.op = "timer" /\ last.k = last.slide)

(***************************************************************************)
(* C16.  An audio failure is not fatal and changes none of currentSlide,   *)
(* isPlaying, showSpeakerNotes, showNarration; keys and buttons still work *)
(* after it.                                                               *)
(***************************************************************************)
C16_FailureIsSilent ==
    last.op = "playFails" =>
        /\ PlaybackStateUnchanged
        /\ audioState = "failed"
        /\ ENABLED KeyDown
        /\ ENABLED Click

\* A pending play() of the current version failed while playing before the
\* last slide, and the fallback timer is armed.
C16_Witness ==
    /\ variant = "current"
    /\ last.op = "playFails"
    /\ isPlaying
    /\ currentSlide < LastSlide
    /\ timers[currentSlide] > 0

(***************************************************************************)
(* C17.  Navigation alone never starts audio: in every reachable state     *)
(* audio is playing only if isPlaying is true.                             *)
(***************************************************************************)
C17_AudioOnlyWhilePlaying == audioState = "playing" => isPlaying

(***************************************************************************)
(* C18.  The one audio element always holds the file of the current        *)
(* slide: after every step its src is the current slide's, so a play       *)
(* attempt of a render targets the new slide and audio of another slide    *)
(* never plays.                                                            *)
(***************************************************************************)
C18_AudioIsCurrentSlides == audioSrc = currentSlide

\* An 'ended' event has advanced the player and the play attempt for the
\* new slide is pending.
C18_Witness ==
    /\ last.op = "ended"
    /\ currentSlide = last.slide + 1
    /\ audioSrc = currentSlide
    /\ audioState = "pending"

(***************************************************************************)
(* C19.  While audio of slide k is playing, advancement from k is          *)
(* audio-driven: the step without user input that moves the player off     *)
(* slide k is the 'ended' event.  Stated for the current version.          *)
(***************************************************************************)
C19_AudioDrivenAdvance ==
    (/\ variant = "current"
     /\ WasAutoStep
     /\ last.state = "playing"
     /\ currentSlide # last.slide)
    => last.op = "ended"

C21_KeyDispatch ==
    (variant = "current" /\ last.op = "keydown") =>
        /\ currentSlide =
              IF last.key = "ArrowRight" /\ last.slide < LastSlide
              THEN last.slide + 1
              ELSE IF last.key = "ArrowLeft" /\ last.slide > 0
                   THEN last.slide - 1
                   ELSE last.slide
        /\ isPlaying = (IF last.key = " " THEN ~last.playing ELSE last.playing)
        /\ showSpeakerNotes =
              (IF last.key \in {"n", "N"} THEN ~last.notes ELSE last.notes)
        /\ showNarration =
              (IF last.key \in {"s", "S"} THEN ~last.script ELSE last.script)

\* ArrowRight was pressed on the last slide while playing and nothing changed.
C21_Witness ==
    /\ variant = "current"
    /\ last.op = "keydown"
    /\ last.key = "ArrowRight"
    /\ last.slide = LastSlide
    /\ last.playing
    /\ PlaybackStateUnchanged

(***************************************************************************)
(* C22.  In the earlier version isPlaying does not stay true at the last   *)
(* slide: the timer effect resets it in the render that would commit it,   *)
(* without an 'ended' event, so in every state between two steps isPlaying *)
(* implies currentSlide < NumSlides - 1.                                   *)
(***************************************************************************)
C22_EarlierResetsAtLastSlide ==
    variant = "earlier" => (isPlaying => currentSlide < LastSlide)

\* The earlier version reached the last slide while playing, by a step that
\* was not an 'ended' event, and isPlaying is false.
C22_Witness ==
    /\ variant = "earlier"
    /\ last.op \in {"timer", "keydown", "click"}
    /\ last.playing
    /\ last.slide < LastSlide
    /\ currentSlide = LastSlide
    /\ ~isPlaying

(***************************************************************************)
(* C23.  Automatic advancement writes the absolute index k + 1 of the      *)
(* slide k the callback was created for, not an increment of the live      *)
(* index: after a timer callback or an 'ended' handler created for slide k *)
(* has changed the index, the index is k + 1, wherever the player was; the *)
(* current version's timer callback always leaves k + 1, so any number of  *)
(* callbacks for the same slide k leave currentSlide = k + 1.              *)
(***************************************************************************)
C23_AbsoluteAdvance ==
    /\ (last.op \in {"ended", "timer"} /\ currentSlide # last.slide)
          => currentSlide = last.k + 1
    /\ (variant = "current" /\ last.op = "timer") => currentSlide = last.k + 1

\* A timer created for slide k has run while the player was on another
\* slide, and the index is k + 1.
C23_Witness ==
    /\ variant = "current"
    /\ last.op = "timer"
    /\ last.slide # last.k
    /\ currentSlide = last.k + 1

(***************************************************************************)
(* C24.  At most one fallback timer is pending at any time, and none is    *)
(* pending while isPlaying is false.                                       *)
(***************************************************************************)
C24_OneTimerOnlyWhilePlaying ==
    /\ Total(timers) <= 1
    /\ ~isPlaying => Total(timers) = 0

(***************************************************************************)
(* C25.  isPlaying is set to false without togglePlay only when            *)
(* currentSlide is the last slide: a step that is not togglePlay and       *)
(* changes isPlaying sets it to false and leaves the player on the last    *)
(* slide; on every other slide only togglePlay changes isPlaying.          *)
(***************************************************************************)
C25_AutoStopOnlyAtLastSlide ==
    (isPlaying # last.playing /\ ~WasTogglePlay)
        => (~isPlaying /\ currentSlide = LastSlide)

\* The audio of the last slide has ended in the current version and has
\* set isPlaying to false.
C25_Witness ==
    /\ variant = "current"
    /\ last.op = "ended"
    /\ last.playing
    /\ last.slide = LastSlide
    /\ ~isPlaying

(***************************************************************************)
(* C26.  In the current version, while isPlaying is true every change of   *)
(* currentSlide loads the new slide's audio and then calls play() on it:   *)
(* after the step the audio element has the new slide's file and the       *)
(* play() promise is pending, or it was rejected, and then, before the     *)
(* last slide, a timer for the new slide is pending.  A promise rejected   *)
(* later, before the last slide, also leaves a timer for that slide.       *)
(***************************************************************************)
C26_PlayContinuesAcrossSlides ==
    variant = "current" =>
        /\ (currentSlide # last.slide /\ isPlaying) =>
              /\ audioSrc = currentSlide
              /\ \/ audioState = "pending"
                 \/ /\ audioState = "paused"
                    /\ currentSlide < LastSlide => timers[currentSlide] > 0
        /\ (last.op = "playFails" /\ isPlaying /\ currentSlide < LastSlide) =>
              timers[currentSlide] > 0

\* A timer has moved the current version to the next slide while playing
\* and play() has been called for the new slide's audio.
C26_Witness ==
    /\ variant = "current"
    /\ last.op = "timer"
    /\ currentSlide # last.slide
    /\ isPlaying
    /\ audioSrc = currentSlide
    /\ audioState = "pending"

(***************************************************************************)
(* C27.  Keyboard and button inputs are equivalent: in every reachable     *)
(* state the key handler asks for the same playback state (currentSlide,   *)
(* isPlaying, showSpeakerNotes, showNarration) for ArrowRight, ArrowLeft,  *)
(* Space, N and S as the click handlers of the Next, Previous, Play/Pause, *)
(* Notes and Script buttons, and the renders that follow are the same.     *)
(***************************************************************************)
C27_KeysEqualButtons ==
    \A pair \in { <<"ArrowRight", "Next">>, <<"ArrowLeft", "Previous">>,
                  <<" ", "PlayPause">>, <<"n", "Notes">>, <<"N", "Notes">>,
                  <<"s", "Script">>, <<"S", "Script">> } :
        LET tk == handleKeyDown(pair[1])
            tb == onClick(pair[2])
        IN /\ tk = tb
           /\ Render(Audio, tk.slide, tk.playing, timers)
                 = Render(Audio, tb.slide, tb.playing, timers)

\* The player is at a bound while playing with an overlay shown, where an
\* arrow key falls through the key handler and the button is disabled.
C27_Witness ==
    /\ last.op \in {"keydown", "click"}
    /\ currentSlide = LastSlide
    /\ isPlaying
    /\ showSpeakerNotes
    /\ handleKeyDown("ArrowRight") = Same

(***************************************************************************)
(* C28.  Code-block dispatch in every slide component: for an inline code  *)
(* node code() returns inline code; for a fenced block with language       *)
(* mermaid it returns the diagram element (the Mermaid component or        *)
(* <pre class="language-mermaid">); for a fenced block with any other      *)
(* language it returns the syntax highlighter, or plain code in a          *)
(* component without highlighter; for a fence without language it returns  *)
(* plain code.  A bare <code> element is inline code for an inline node    *)
(* and plain code for a block, which ReactMarkdown puts in a <pre>.        *)
(***************************************************************************)
C28_CodeDispatch ==
    \A i \in DOMAIN output :
        LET node == markdown[i]
            el == output[i]
            handler ==
                IF \/ el.root = "Mermaid"
                   \/ el.root = "pre" /\ el.rootClass = LanguageMermaid
                THEN "diagram"
                ELSE IF el.root = "SyntaxHighlighter" THEN "highlighter"
                ELSE IF el.root = "pre" THEN "plain"
                ELSE IF node.inline THEN "inline" ELSE "plain"
        IN handler =
              IF node.inline THEN "inline"
              ELSE IF node.lang = Mermaid THEN "diagram"
              ELSE IF node.lang # <<>>
                   THEN IF HasHighlighter(component) THEN "highlighter" ELSE "plain"
              ELSE "plain"

(***************************************************************************)
(* C29.  A mermaid block is rendered at most once: no element is rendered  *)
(* by mermaid more than once, no two runs of renderDiagrams wait for the   *)
(* render of the same element at the same time, and an element mermaid has *)
(* rendered has exactly one 'mermaid-rendered' container (the container    *)
(* that replaced it or, where the element is rendered in place, the        *)
(* element itself).                                                        *)
(***************************************************************************)
C29_RenderedAtMostOnce ==
    /\ \A i \in DOMAIN dom : dom[i].renders <= 1
    /\ \A r1, r2 \in DOMAIN diagramRuns :
          (/\ r1 # r2
           /\ diagramRuns[r1].state = "awaiting"
           /\ diagramRuns[r2].state = "awaiting")
          => diagramRuns[r1].snapshot[diagramRuns[r1].i]
                # diagramRuns[r2].snapshot[diagramRuns[r2].i]
    /\ \A i \in DOMAIN dom :
          dom[i].renders >= 1 =>
              dom[i].containers
                  + (IF "mermaid-rendered" \in dom[i].marks THEN 1 ELSE 0) = 1

====
